---- MODULE Spec2Model ----
(***************************************************************************)
(* Video trim service (Custom_Projects6/Video_Trim/main.py): the temp-file *)
(* lifecycle of POST /trim around the transcode subprocess, the retention  *)
(* sweep of the storage directory, file retrieval and health, on a shared  *)
(* filesystem.  Handlers are coroutines without await points, so one       *)
(* handler at a time occupies the event loop; the scheduler's sweep runs   *)
(* in its own thread and interleaves with it.                              *)
(***************************************************************************)
EXTENDS Integers, Sequences, FiniteSets, TLC

VARIABLES
    fs,      \* the filesystem: path (sequence of components) -> entry
    now,     \* time.time(), in seconds
    xdev,    \* deployment: /tmp and /app/videos are on different filesystems
    order,   \* the order in which the storage directory lists its names
    loop,    \* what occupies the event loop
    req,     \* the trim request in flight (NoReq when none)
    nextId,  \* the next job identifier uuid4() hands out
    sw,      \* the two sweep activations: scheduler thread, event loop
    faults,  \* injected I/O errors (a failed copy or os.remove) so far
    resp,    \* what the last step emitted: an HTTP response or a log line
    hist     \* history: successful trims, and whether a sweep deleted a file

vars == <<fs, now, xdev, order, loop, req, nextId, sw, faults, resp, hist>>

-----------------------------------------------------------------------------
(* Bounds of the model *)

MaxJobs == 2
MaxTicks == 3
MaxPre == 2
MaxParam == 1
MaxFaults == 1

(* Program constants *)

RETENTION == 3600
INTERVAL_MINUTES == 30
INTERVAL == INTERVAL_MINUTES * 60

-----------------------------------------------------------------------------
(* Paths.  A path is the sequence of its components; a filename handed to  *)
(* os.path.join is its components and whether it starts with a slash.      *)

VIDEOS_DIR == <<"app", "videos">>

Rel(parts) == [abs |-> FALSE, parts |-> parts]
Abs(parts) == [abs |-> TRUE, parts |-> parts]

\* os.path.join(dir, name): an absolute second argument discards the first
PathJoin(dir, name) == IF name.abs THEN name.parts ELSE dir \o name.parts

video_id(j) == "id" \o ToString(j)
input_path(j) == <<"tmp", video_id(j) \o "_input.mp4">>
output_path(j) == <<"tmp", video_id(j) \o "_output.mp4">>
final_filename(j) == video_id(j) \o ".mp4"
final_path(j) == PathJoin(VIDEOS_DIR, Rel(<<final_filename(j)>>))

IsDir(fsys, p) == p \in DOMAIN fsys /\ fsys[p].kind = "dir"

Parent(p) == IF p = <<>> THEN <<>> ELSE SubSeq(p, 1, Len(p) - 1)

ENOENT == <<"", "ENOENT">>

\* The kernel's walk of a path from the root: ".." steps to the parent, and
\* every component that is walked through must be a directory.
RECURSIVE Walk(_, _, _)
Walk(fsys, cur, rest) ==
    IF rest = <<>> THEN cur
    ELSE IF ~IsDir(fsys, cur) THEN ENOENT
    ELSE IF Head(rest) = ".." THEN Walk(fsys, Parent(cur), Tail(rest))
    ELSE IF Head(rest) = "." THEN Walk(fsys, cur, Tail(rest))
    ELSE Walk(fsys, Append(cur, Head(rest)), Tail(rest))

Resolve(fsys, path) == Walk(fsys, <<>>, path)

exists(fsys, path) == Resolve(fsys, path) \in DOMAIN fsys

isfile(fsys, path) ==
    /\ exists(fsys, path)
    /\ fsys[Resolve(fsys, path)].kind = "file"

getmtime(fsys, path) == fsys[Resolve(fsys, path)].mtime

listdir(fsys, dir) ==
    { p[Len(p)] : p \in { q \in DOMAIN fsys :
                            /\ Len(q) = Len(dir) + 1
                            /\ SubSeq(q, 1, Len(dir)) = dir } }

\* os.listdir gives the names in an order of the directory's own ("arbitrary
\* order"): some fixed sequence of the names the directory can hold
Orders(names) ==
    { o \in [1..Cardinality(names) -> names] :
        \A i, k \in 1..Cardinality(names) : o[i] = o[k] => i = k }

Rank(o, n) == CHOOSE i \in DOMAIN o : o[i] = n

\* the name a loop over the listing comes to first
FirstOf(o, names) == CHOOSE f \in names : \A g \in names : Rank(o, f) <= Rank(o, g)

Within(p, dir) == Len(p) > Len(dir) /\ SubSeq(p, 1, Len(dir)) = dir

DirEntry == [kind |-> "dir", mtime |-> 0, owner |-> 0, complete |-> TRUE,
             locked |-> FALSE]

FileEntry(t, j, c, l) == [kind |-> "file", mtime |-> t, owner |-> j,
                          complete |-> c, locked |-> l]

Put(fsys, p, e) == [q \in DOMAIN fsys \cup {p} |-> IF q = p THEN e ELSE fsys[q]]

Del(fsys, p) == [q \in DOMAIN fsys \ {p} |-> fsys[q]]

\* os.remove raises when the path is missing or the entry cannot be unlinked
CanRemove(fsys, p) == p \in DOMAIN fsys /\ fsys[p].kind = "file" /\ ~fsys[p].locked

BaseFs ==
    [p \in {<<>>, <<"app">>, VIDEOS_DIR, <<"tmp">>, <<"etc">>, <<"etc", "passwd">>} |->
        IF p = <<"etc", "passwd">> THEN FileEntry(0, 0, TRUE, FALSE) ELSE DirEntry]

-----------------------------------------------------------------------------
(* Values *)

Sweepers == {"sched", "loop"}

NoReq == [pc |-> "none"]
NoResp == [op |-> "none"]

IdleSweep == [pc |-> "idle", now |-> 0, todo |-> {}, cur |-> "", total |-> 0,
              deleted |-> 0, before |-> <<>>, again |-> FALSE, alone |-> FALSE,
              since |-> 0, outcome |-> ""]

BootNow == RETENTION + INTERVAL
Horizon == BootNow + MaxTicks * INTERVAL

\* the storage directory as os.listdir and os.stat show it: name -> entry
StorageSnap(fsys) ==
    [n \in listdir(fsys, VIDEOS_DIR) |-> fsys[VIDEOS_DIR \o <<n>>]]

-----------------------------------------------------------------------------
(* Retention sweep: cleanup_old_videos, one step per filesystem call *)

ExpiredAtOrAfter(age) == age >= RETENTION

\* a sweep that removes every regular file it meets
ExpiredAtOnce(age) == age >= 0

\* line 44: if age > 3600
Expired(age) == age > RETENTION

\* print(f"Cleanup error: ...") at line 51, print(f"Cleanup complete: ...") at 49
SweepLog(s, kind) ==
    [op |-> kind, s |-> s, now |-> sw[s].now, before |-> sw[s].before,
     again |-> sw[s].again, alone |-> sw[s].alone, since |-> sw[s].since]

\* cleanup_old_videos returns: to the scheduler, or to the handler that called
SweepOver(s, outcome) ==
    IF s = "sched" THEN IdleSweep
    ELSE [IdleSweep EXCEPT !.pc = "ret", !.now = sw[s].now, !.outcome = outcome]

\* lines 35-39: now = time.time(); the listing of VIDEOS_DIR is taken once.
\* History: whether the other sweeper is inside cleanup_old_videos, and the
\* clock of the earliest sweep of the overlapping ones.
SweepStart(t, again, other) ==
    [pc |-> "scan", now |-> t, todo |-> listdir(fs, VIDEOS_DIR),
     cur |-> "", total |-> 0, deleted |-> 0, before |-> StorageSnap(fs),
     again |-> again, alone |-> sw[other].pc \in {"idle", "ret"},
     since |-> IF sw[other].pc \in {"idle", "ret"} THEN t ELSE sw[other].since,
     outcome |-> ""]

\* cleanup_old_videos is entered by sweeper s while the other is where it is
Enter(s, other, t, again) ==
    sw' = [sw EXCEPT ![s] = SweepStart(t, again, other), ![other].alone = FALSE]

\* history: the last step was the return of a handler that ran a sweep, and
\* the clock and the directory are as that sweep left them
RightAfterSweep ==
    /\ resp.op \in {"cleanup", "startup"}
    /\ resp.swept.now = now
    /\ resp.swept.listing = StorageSnap(fs)

SweepBegin(s) ==
    /\ sw[s].pc = "idle"
    /\ Enter(s, "sched", now, RightAfterSweep)

\* history of the sweep a handler ran, for its response
Swept == [outcome |-> sw["loop"].outcome, now |-> sw["loop"].now,
          listing |-> StorageSnap(fs)]

\* lines 39-42: the next filename of the listing, and os.path.isfile on
\* its path
SweepIsFile(s) ==
    /\ sw[s].pc = "scan"
    /\ sw[s].todo # {}
    /\ LET f == FirstOf(order, sw[s].todo)
           filepath == PathJoin(VIDEOS_DIR, Rel(<<f>>)) IN
          sw' = [sw EXCEPT ![s].todo = @ \ {f},
                           ![s].cur = f,
                           ![s].total = IF isfile(fs, filepath) THEN @ + 1 ELSE @,
                           ![s].pc = IF isfile(fs, filepath) THEN "getmtime"
                                     ELSE "scan"]
    /\ resp' = NoResp
    /\ UNCHANGED <<fs, now, xdev, order, loop, req, nextId, faults, hist>>

\* an exception that is not caught: the sweeper never returns to its caller
SweepAbortPropagates(s) ==
    /\ sw' = [sw EXCEPT ![s].pc = "raised"]
    /\ resp' = [op |-> "cleanup_raised", s |-> s]
    /\ UNCHANGED <<fs, now, xdev, order, loop, req, nextId, faults, hist>>

\* the except clause of lines 50-51: the sweep ends where it is
SweepAbort(s) ==
    /\ sw' = [sw EXCEPT ![s] = SweepOver(s, "cleanup_error")]
    /\ resp' = SweepLog(s, "cleanup_error")
    /\ UNCHANGED <<fs, now, xdev, order, loop, req, nextId, faults, hist>>

\* lines 43-44: age = now - os.path.getmtime(filepath); FileNotFoundError
\* when the file has gone since isfile
SweepGetMtime(s) ==
    /\ sw[s].pc = "getmtime"
    /\ LET filepath == PathJoin(VIDEOS_DIR, Rel(<<sw[s].cur>>)) IN
       IF ~exists(fs, filepath) THEN SweepAbort(s)
       ELSE /\ sw' = [sw EXCEPT ![s].pc =
                        IF Expired(sw[s].now - getmtime(fs, filepath))
                        THEN "remove" ELSE "scan"]
            /\ resp' = NoResp
            /\ UNCHANGED <<fs, now, xdev, order, loop, req, nextId, faults, hist>>

\* a sweep that stops scanning after its first deletion
SweepRemoveThenStop(s) ==
    /\ sw[s].pc = "remove"
    /\ LET filepath == PathJoin(VIDEOS_DIR, Rel(<<sw[s].cur>>)) IN
       IF ~CanRemove(fs, Resolve(fs, filepath)) THEN SweepAbort(s)
       ELSE /\ fs' = Del(fs, Resolve(fs, filepath))
            /\ sw' = [sw EXCEPT ![s].pc = "scan", ![s].deleted = @ + 1,
                                ![s].todo = {}]
            /\ hist' = [hist EXCEPT !.deleted = TRUE]
            /\ resp' = NoResp
            /\ UNCHANGED <<now, xdev, order, loop, req, nextId, faults>>

\* lines 45-47: os.remove(filepath); deleted += 1
SweepRemove(s) ==
    /\ sw[s].pc = "remove"
    /\ LET filepath == PathJoin(VIDEOS_DIR, Rel(<<sw[s].cur>>)) IN
       IF ~CanRemove(fs, Resolve(fs, filepath)) THEN SweepAbort(s)
       ELSE /\ fs' = Del(fs, Resolve(fs, filepath))
            /\ sw' = [sw EXCEPT ![s].pc = "scan", ![s].deleted = @ + 1]
            /\ hist' = [hist EXCEPT !.deleted = TRUE]
            /\ resp' = NoResp
            /\ UNCHANGED <<now, xdev, order, loop, req, nextId, faults>>

\* lines 39-47 for one filename, as one step: nothing but another sweep
\* removes a stored file, so against the trim worker the three calls on a
\* file behave as if made together
SweepFile(s) ==
    /\ sw[s].pc = "scan"
    /\ sw[s].todo # {}
    /\ LET f == FirstOf(order, sw[s].todo)
           filepath == PathJoin(VIDEOS_DIR, Rel(<<f>>)) IN
          IF ~isfile(fs, filepath)
          THEN /\ sw' = [sw EXCEPT ![s].todo = @ \ {f}]
               /\ resp' = NoResp
               /\ UNCHANGED <<fs, now, xdev, order, loop, req, nextId, faults, hist>>
          ELSE IF ~Expired(sw[s].now - getmtime(fs, filepath))
          THEN /\ sw' = [sw EXCEPT ![s].todo = @ \ {f}, ![s].total = @ + 1]
               /\ resp' = NoResp
               /\ UNCHANGED <<fs, now, xdev, order, loop, req, nextId, faults, hist>>
          ELSE IF ~CanRemove(fs, Resolve(fs, filepath))
          THEN SweepAbort(s)
          ELSE /\ fs' = Del(fs, Resolve(fs, filepath))
               /\ sw' = [sw EXCEPT ![s].todo = @ \ {f}, ![s].total = @ + 1,
                                   ![s].deleted = @ + 1]
               /\ hist' = [hist EXCEPT !.deleted = TRUE]
               /\ resp' = NoResp
               /\ UNCHANGED <<now, xdev, order, loop, req, nextId, faults>>

\* line 49: the loop is over
SweepComplete(s) ==
    /\ sw[s].pc = "scan"
    /\ sw[s].todo = {}
    /\ sw' = [sw EXCEPT ![s] = SweepOver(s, "cleanup_complete")]
    /\ resp' = SweepLog(s, "cleanup_complete")
    /\ UNCHANGED <<fs, now, xdev, order, loop, req, nextId, faults, hist>>

\* lines 57-61: startup_event calls cleanup_old_videos
StartupEvent ==
    /\ loop = "init"
    /\ SweepBegin("loop")
    /\ loop' = "startup"
    /\ resp' = NoResp
    /\ UNCHANGED <<fs, now, xdev, order, req, nextId, faults, hist>>

StartupReturn ==
    /\ loop = "startup"
    /\ sw["loop"].pc = "ret"
    /\ sw' = [sw EXCEPT !["loop"] = IdleSweep]
    /\ loop' = "free"
    /\ resp' = [op |-> "startup", swept |-> Swept]
    /\ UNCHANGED <<fs, now, xdev, order, req, nextId, faults, hist>>

\* lines 147-150: GET /cleanup calls cleanup_old_videos
ManualCleanup ==
    /\ loop = "free"
    /\ SweepBegin("loop")
    /\ loop' = "cleanup"
    /\ resp' = NoResp
    /\ UNCHANGED <<fs, now, xdev, order, req, nextId, faults, hist>>

\* line 151: the response counts the directory again
ManualCleanupReturn ==
    /\ loop = "cleanup"
    /\ sw["loop"].pc = "ret"
    /\ sw' = [sw EXCEPT !["loop"] = IdleSweep]
    /\ loop' = "free"
    /\ resp' = [op |-> "cleanup", status |-> 200,
                videos_remaining |-> Cardinality(listdir(fs, VIDEOS_DIR)),
                swept |-> Swept]
    /\ UNCHANGED <<fs, now, xdev, order, req, nextId, faults, hist>>

SweepStep ==
    \/ SweepIsFile("loop")
    \/ SweepGetMtime("loop")
    \/ SweepRemove("loop")
    \/ SweepComplete("loop")

\* phases of a trim after the transcode subprocess has returned
PostTranscode == {"move", "copy", "unlink", "rm_input", "except_in", "except_out"}

\* Thirty minutes pass, and the interval job of lines 53-55 fires in the
\* scheduler's thread (a run is skipped while the previous one is still
\* going).  The subprocess has a 120 s timeout (line 94), so at most one such
\* boundary falls between the transcode and the end of the request.
Tick ==
    /\ now < Horizon
    /\ req.pc \in PostTranscode => ~req.ticked
    /\ now' = now + INTERVAL
    /\ IF sw["sched"].pc = "idle"
       THEN Enter("sched", "loop", now + INTERVAL, FALSE)
       ELSE UNCHANGED sw
    /\ req' = IF req.pc \in PostTranscode THEN [req EXCEPT !.ticked = TRUE] ELSE req
    /\ resp' = NoResp
    /\ UNCHANGED <<fs, xdev, order, loop, nextId, faults, hist>>

-----------------------------------------------------------------------------------------------------------------------------------------------------
(* POST /trim: trim_video, one step per call that touches the world *)

Times == 0..MaxParam

\* line 81
fade_start(r) == r.end_time - r.start_time - r.fade_duration

\* the invariant the parameters are expected to meet (not enforced)
ValidParams(r) ==
    /\ 0 <= r.start_time
    /\ r.start_time < r.end_time
    /\ 0 <= r.fade_duration
    /\ 0 <= fade_start(r)

\* an injected I/O error: a copy or an os.remove that raises OSError
Fault == faults < MaxFaults /\ faults' = faults + 1

\* the request ends: the event loop is free again
Answer(response) ==
    /\ resp' = response
    /\ req' = NoReq
    /\ loop' = "free"

\* lines 104-111
TrimOk(r) ==
    [op |-> "trim", status |-> 200, id |-> r.id, valid |-> r.valid,
     before |-> r.before, video_url |-> final_filename(r.id)]

\* line 119: HTTPException(status_code=500, detail=str(e))
TrimError(r) ==
    [op |-> "trim", status |-> 500, id |-> r.id, valid |-> r.valid,
     before |-> r.before, detail |-> r.err, raised |-> r.err]

\* an exception that leaves the except clause: the framework's plain 500
TrimCrash(r) ==
    [op |-> "trim", status |-> 500, id |-> r.id, valid |-> r.valid,
     before |-> r.before, detail |-> "Internal Server Error", raised |-> r.err]

\* an exception inside the try block of lines 71-111
Raise(e) == req' = [req EXCEPT !.pc = "except_in", !.err = e]

\* a request that takes the identifier of the first request again
TrimStartSameId ==
    /\ loop = "free"
    /\ nextId <= MaxJobs
    /\ \E st \in Times, en \in Times, fd \in Times :
          LET params == [start_time |-> st, end_time |-> en, fade_duration |-> fd]
          IN  req' = [pc |-> "fetch", id |-> 1,
                      valid |-> ValidParams(params), err |-> "", ticked |-> FALSE,
                      before |-> listdir(fs, VIDEOS_DIR)]
    /\ nextId' = nextId + 1
    /\ loop' = "trim"
    /\ resp' = NoResp
    /\ UNCHANGED <<fs, now, xdev, order, sw, faults, hist>>

\* lines 64-69.  The parameters only shape the command line of lines 83-94:
\* the request keeps whether they meet the expected invariant, and (history)
\* the names the storage directory held when the request came in.
TrimStart ==
    /\ loop = "free"
    /\ nextId <= MaxJobs
    /\ \E st \in Times, en \in Times, fd \in Times :
          LET params == [start_time |-> st, end_time |-> en, fade_duration |-> fd]
          IN  req' = [pc |-> "fetch", id |-> nextId,
                      valid |-> ValidParams(params), err |-> "", ticked |-> FALSE,
                      before |-> listdir(fs, VIDEOS_DIR)]
    /\ nextId' = nextId + 1
    /\ loop' = "trim"
    /\ resp' = NoResp
    /\ UNCHANGED <<fs, now, xdev, order, sw, faults, hist>>

\* lines 73-74: requests.get and raise_for_status
Fetch ==
    /\ req.pc = "fetch"
    /\ \/ req' = [req EXCEPT !.pc = "write"]
       \/ Raise("fetch failed")
    /\ resp' = NoResp
    /\ UNCHANGED <<fs, now, xdev, order, loop, nextId, sw, faults, hist>>

\* lines 76-78: the input is written
WriteInput ==
    /\ req.pc = "write"
    /\ fs' = Put(fs, input_path(req.id), FileEntry(now, req.id, TRUE, FALSE))
    /\ req' = [req EXCEPT !.pc = "ffmpeg"]
    /\ resp' = NoResp
    /\ UNCHANGED <<now, xdev, order, loop, nextId, sw, faults, hist>>

\* lines 80-97: the subprocess exits 0 with its output written; or exits
\* non-zero or times out, with no output or part of one
Ffmpeg ==
    /\ req.pc = "ffmpeg"
    /\ \/ /\ fs' = Put(fs, output_path(req.id), FileEntry(now, req.id, TRUE, FALSE))
          /\ req' = [req EXCEPT !.pc = "move"]
       \/ \E e \in {"FFmpeg failed", "timed out"}, partial \in BOOLEAN :
             /\ fs' = IF partial
                      THEN Put(fs, output_path(req.id),
                               FileEntry(now, req.id, FALSE, FALSE))
                      ELSE fs
             /\ Raise(e)
    /\ resp' = NoResp
    /\ UNCHANGED <<now, xdev, order, loop, nextId, sw, faults, hist>>

\* line 99, shutil.move on one filesystem: os.rename
MoveRename ==
    /\ req.pc = "move"
    /\ ~xdev
    /\ fs' = Put(Del(fs, output_path(req.id)), final_path(req.id),
                 fs[output_path(req.id)])
    /\ req' = [req EXCEPT !.pc = "rm_input"]
    /\ resp' = NoResp
    /\ UNCHANGED <<now, xdev, order, loop, nextId, sw, faults, hist>>

\* line 99, shutil.move across filesystems: os.rename fails and the file is
\* copied; the destination is opened and filled
MoveCopyOpen ==
    /\ req.pc = "move"
    /\ xdev
    /\ fs' = Put(fs, final_path(req.id), FileEntry(now, req.id, FALSE, FALSE))
    /\ req' = [req EXCEPT !.pc = "copy"]
    /\ resp' = NoResp
    /\ UNCHANGED <<now, xdev, order, loop, nextId, sw, faults, hist>>

\* the copy ends, and copystat gives the destination the source's mtime; or
\* the copy fails and leaves what it wrote
MoveCopy ==
    /\ req.pc = "copy"
    /\ \/ /\ fs' = Put(fs, final_path(req.id), fs[output_path(req.id)])
          /\ req' = [req EXCEPT !.pc = "unlink"]
          /\ UNCHANGED faults
       \/ /\ Fault
          /\ Raise("move failed")
          /\ UNCHANGED fs
    /\ resp' = NoResp
    /\ UNCHANGED <<now, xdev, order, loop, nextId, sw, hist>>

\* shutil.move ends with os.unlink(src)
MoveUnlink ==
    /\ req.pc = "unlink"
    /\ fs' = Del(fs, output_path(req.id))
    /\ req' = [req EXCEPT !.pc = "rm_input"]
    /\ resp' = NoResp
    /\ UNCHANGED <<now, xdev, order, loop, nextId, sw, faults, hist>>

\* a success path that forgets the temp input
RemoveInputForgotten ==
    /\ req.pc = "rm_input"
    /\ Answer(TrimOk(req))
    /\ hist' = [hist EXCEPT !.ok = @ + 1]
    /\ UNCHANGED <<fs, now, xdev, order, nextId, sw, faults>>

\* lines 102-111: os.remove(input_path) and the success response
RemoveInput ==
    /\ req.pc = "rm_input"
    /\ \/ /\ fs' = Del(fs, input_path(req.id))
          /\ Answer(TrimOk(req))
          /\ hist' = [hist EXCEPT !.ok = @ + 1]
          /\ UNCHANGED faults
       \/ /\ Fault
          /\ Raise("remove failed")
          /\ resp' = NoResp
          /\ UNCHANGED <<fs, loop, hist>>
    /\ UNCHANGED <<now, xdev, order, nextId, sw>>

\* lines 113-116: the except clause removes the input when it exists; an
\* error of os.remove leaves the clause
ExceptInput ==
    /\ req.pc = "except_in"
    /\ IF exists(fs, input_path(req.id))
       THEN \/ /\ fs' = Del(fs, input_path(req.id))
               /\ req' = [req EXCEPT !.pc = "except_out"]
               /\ resp' = NoResp
               /\ UNCHANGED <<loop, faults>>
            \/ /\ Fault
               /\ Answer(TrimCrash(req))
               /\ UNCHANGED fs
       ELSE /\ req' = [req EXCEPT !.pc = "except_out"]
            /\ resp' = NoResp
            /\ UNCHANGED <<fs, loop, faults>>
    /\ UNCHANGED <<now, xdev, order, nextId, sw, hist>>

\* lines 117-119: then the output, and the 500 with the original message
ExceptOutput ==
    /\ req.pc = "except_out"
    /\ IF exists(fs, output_path(req.id))
       THEN \/ /\ fs' = Del(fs, output_path(req.id))
               /\ Answer(TrimError(req))
               /\ UNCHANGED faults
            \/ /\ Fault
               /\ Answer(TrimCrash(req))
               /\ UNCHANGED fs
       ELSE /\ Answer(TrimError(req))
            /\ UNCHANGED <<fs, faults>>
    /\ UNCHANGED <<now, xdev, order, nextId, sw, hist>>

-----
(* GET /video/{filename}, GET /, GET /health *)

Filenames ==
    { Rel(<<final_filename(1)>>), Rel(<<"old1.mp4">>), Rel(<<"sub">>),
      Rel(<<"missing.mp4">>),
      Rel(<<"..", "videos", "old1.mp4">>),
      Rel(<<"..", "..", "etc", "passwd">>),
      Rel(<<"..", "..", "tmp", "id1_input.mp4">>),
      Abs(<<"etc", "passwd">>) }

\* FileResponse(file_path, media_type="video/mp4"): the file is opened when
\* the response is sent, and a path that is no regular file is an error
FileResponse(filename, file_path) ==
    IF isfile(fs, file_path)
    THEN [op |-> "serve", status |-> 200, filename |-> filename,
          path |-> Resolve(fs, file_path), body |-> fs[Resolve(fs, file_path)],
          media_type |-> "video/mp4"]
    ELSE [op |-> "serve", status |-> 500, filename |-> filename]

\* lines 121-126
serve_video(filename) ==
    /\ loop = "free"
    /\ LET file_path == PathJoin(VIDEOS_DIR, filename) IN
       resp' = IF ~exists(fs, file_path)
               THEN [op |-> "serve", status |-> 404, filename |-> filename,
                     detail |-> "Video not found"]
               ELSE FileResponse(filename, file_path)
    /\ UNCHANGED <<fs, now, xdev, order, loop, req, nextId, sw, faults, hist>>

\* lines 128-135
root ==
    /\ loop = "free"
    /\ resp' = [op |-> "root", status |-> 200]
    /\ UNCHANGED <<fs, now, xdev, order, loop, req, nextId, sw, faults, hist>>

\* lines 137-145
health ==
    /\ loop = "free"
    /\ resp' = [op |-> "health", status |-> 200,
                videos_stored |-> Cardinality(listdir(fs, VIDEOS_DIR))]
    /\ UNCHANGED <<fs, now, xdev, order, loop, req, nextId, sw, faults, hist>>

-----------------------------------------------------------------------------
(* The service from a fresh deployment: the storage directory starts empty *)

Init ==
    /\ fs = BaseFs
    /\ now = BootNow
    /\ xdev \in BOOLEAN
    /\ order \in Orders({ final_filename(j) : j \in 1..MaxJobs })
    /\ loop = "init"
    /\ req = NoReq
    /\ nextId = 1
    /\ sw = [s \in Sweepers |-> IdleSweep]
    /\ faults = 0
    /\ resp = NoResp
    /\ hist = [ok |-> 0, deleted |-> FALSE]

TrimStep ==
    \/ TrimStart
    \/ Fetch
    \/ WriteInput
    \/ Ffmpeg
    \/ MoveRename
    \/ MoveCopyOpen
    \/ MoveCopy
    \/ MoveUnlink
    \/ RemoveInput
    \/ ExceptInput
    \/ ExceptOutput

SchedStep ==
    \/ SweepFile("sched")
    \/ SweepComplete("sched")

Next ==
    \/ StartupEvent
    \/ StartupReturn
    \/ TrimStep
    \/ \E filename \in Filenames : serve_video(filename)
    \/ root
    \/ health
    \/ ManualCleanup
    \/ ManualCleanupReturn
    \/ SweepFile("loop")
    \/ SweepComplete("loop")
    \/ SchedStep
    \/ Tick

Spec == Init /\ [][Next]_vars

-----------------------------------------------------------------------------
(* The service restarted over a directory left by an earlier run, in its   *)
(* first thirty minutes (the interval job has not fired yet) and with no   *)
(* trim traffic: the startup sweep and on-demand sweeps, one step per      *)
(* filesystem call, with retrieval and health                              *)

PreNames == { "old" \o ToString(i) \o ".mp4" : i \in 1..MaxPre }

PreAges == {0, RETENTION, RETENTION + 1}

PreEntries ==
    { FileEntry(BootNow - a, 0, TRUE, l) : a \in PreAges, l \in BOOLEAN }

BootInit ==
    /\ \E names \in SUBSET PreNames, withdir \in BOOLEAN :
       \E content \in [names -> PreEntries] :
          fs = [p \in DOMAIN BaseFs
                      \cup { VIDEOS_DIR \o <<n>> : n \in names }
                      \cup (IF withdir THEN {VIDEOS_DIR \o <<"sub">>} ELSE {}) |->
                   IF p \in DOMAIN BaseFs THEN BaseFs[p]
                   ELSE IF p = VIDEOS_DIR \o <<"sub">> THEN DirEntry
                   ELSE content[p[Len(p)]]]
    /\ now = BootNow
    /\ xdev = FALSE
    /\ order \in Orders(PreNames \cup {"sub"})
    /\ loop = "init"
    /\ req = NoReq
    /\ nextId = 1
    /\ sw = [s \in Sweepers |-> IdleSweep]
    /\ faults = 0
    /\ resp = NoResp
    /\ hist = [ok |-> 0, deleted |-> FALSE]

BootNext ==
    \/ StartupEvent
    \/ StartupReturn
    \/ ManualCleanup
    \/ ManualCleanupReturn
    \/ SweepStep
    \/ \E filename \in Filenames : serve_video(filename)
    \/ root
    \/ health

BootSpec == BootInit /\ [][BootNext]_vars

-----------------------------------------------------------------------------
(* The sweeps alone, over a directory left by an earlier run: the startup  *)
(* sweep, on-demand sweeps and the scheduler's sweep in its own thread,    *)
(* each one step per filesystem call, so that the calls of two sweeps      *)
(* interleave                                                              *)

SweepInitAt(t, entries) ==
    /\ \E names \in SUBSET PreNames :
       \E content \in [names -> entries] :
          fs = [p \in DOMAIN BaseFs \cup { VIDEOS_DIR \o <<n>> : n \in names } |->
                   IF p \in DOMAIN BaseFs THEN BaseFs[p] ELSE content[p[Len(p)]]]
    /\ now = t
    /\ xdev = FALSE
    /\ order \in Orders(PreNames)
    /\ loop = "init"
    /\ req = NoReq
    /\ nextId = 1
    /\ sw = [s \in Sweepers |-> IdleSweep]
    /\ faults = 0
    /\ resp = NoResp
    /\ hist = [ok |-> 0, deleted |-> FALSE]

SweepInit == SweepInitAt(BootNow, PreEntries)

SchedSweepStep ==
    \/ SweepIsFile("sched")
    \/ SweepGetMtime("sched")
    \/ SweepRemove("sched")
    \/ SweepComplete("sched")

\* The interval job of lines 53-55 keeps firing every thirty minutes.  Past
\* the horizon the clock is no longer advanced: every file of the directory
\* is over age by then and stays so.
LateTick ==
    /\ now = Horizon
    /\ sw["sched"].pc = "idle"
    /\ Enter("sched", "loop", now, FALSE)
    /\ resp' = NoResp
    /\ UNCHANGED <<fs, now, xdev, order, loop, req, nextId, faults, hist>>

SweepNext ==
    \/ StartupEvent
    \/ StartupReturn
    \/ ManualCleanup
    \/ ManualCleanupReturn
    \/ SweepStep
    \/ SchedSweepStep
    \/ Tick
    \/ LateTick

SweepSpec == SweepInit /\ [][SweepNext]_vars

\* The scheduler's timer fires, each thread that is inside a sweep takes its
\* next step, and the event loop runs the startup handler and finishes the
\* handler it is in; requests for GET /cleanup may or may not come.
SweepFairness ==
    /\ WF_vars(LateTick)
    /\ WF_vars(SchedSweepStep)
    /\ WF_vars(SweepStep)
    /\ WF_vars(StartupEvent \/ StartupReturn \/ ManualCleanupReturn)

\* The same service started late, over a directory whose files are all over
\* age, some of them refusing removal; the sweeps go on for ever.
LateEntries == { FileEntry(BootNow, 0, TRUE, l) : l \in BOOLEAN }

LateInit == SweepInitAt(Horizon, LateEntries)

LateNext ==
    \/ StartupEvent
    \/ StartupReturn
    \/ ManualCleanup
    \/ ManualCleanupReturn
    \/ SweepStep
    \/ SchedSweepStep
    \/ LateTick

FairSweepSpec == LateInit /\ [][LateNext]_vars /\ SweepFairness

-----------------------------------------------------------------------------
(* Claims about the trim worker *)

TrimReturned == resp.op = "trim" /\ resp.status = 200
TrimFailed == resp.op = "trim" /\ resp.status = 500

\* C1: when trim_video returns success for a request with 0 <= start_time <
\* end_time and 0 <= fade_duration <= end_time - start_time, the storage
\* directory holds exactly one name it did not hold when the request came
\* in, <job id>.mp4, a regular file, and neither temp path of the request
\* exists.
C1_SuccessOneNewFileNoTemp ==
    (TrimReturned /\ resp.valid) =>
        /\ listdir(fs, VIDEOS_DIR) \ resp.before = {final_filename(resp.id)}
        /\ isfile(fs, final_path(resp.id))
        /\ ~exists(fs, input_path(resp.id))
        /\ ~exists(fs, output_path(resp.id))

C1_Witness ==
    /\ TrimReturned
    /\ resp.valid
    /\ resp.id = 2
    /\ resp.before = {final_filename(1)}
    /\ listdir(fs, VIDEOS_DIR) = {final_filename(1), final_filename(2)}

\* C2: after a trim request that is answered with an error, no file of the
\* request is in the storage directory and neither of its temp files is on
\* disk.
C2_FailureLeavesNothing ==
    TrimFailed =>
        /\ ~exists(fs, final_path(resp.id))
        /\ ~exists(fs, input_path(resp.id))
        /\ ~exists(fs, output_path(resp.id))

\* C3: at every moment, each regular file in the storage directory is the
\* complete output of a transcode that exited 0: no partly written file is
\* visible under a final name.
C3_StoredFilesComplete ==
    \A p \in DOMAIN fs :
        (Within(p, VIDEOS_DIR) /\ fs[p].kind = "file") => fs[p].complete

\* C4: a failed trim answers with the message of the original error, also
\* when a removal in the failure handler raises: the error of the removal
\* does not replace the original one.
C4_CleanupErrorsSwallowed ==
    TrimFailed => resp.detail = resp.raised

-----------------------------------------------------------------------------
(* Claims about the sweep *)

SweepEnded == resp.op \in {"cleanup_complete", "cleanup_error"}


OverAge(before, t, n) ==
    before[n].kind = "file" /\ t - before[n].mtime > RETENTION

\* no file the sweep has to remove refuses its removal
NoFailing(before, t) ==
    \A n \in DOMAIN before : OverAge(before, t, n) => ~before[n].locked

Kept(before, t) == { n \in DOMAIN before : ~OverAge(before, t, n) }

\* C5: with no concurrent writer, one run of cleanup_old_videos over a
\* directory whose over-age files can be removed ends normally and leaves
\* exactly the entries that are not regular files of age > 3600 s (age
\* taken at the sweep's start), each unchanged: regular files of age
\* <= 3600 s and non-regular entries stay.
C5_SweepRemovesExactlyOverAge ==
    (SweepEnded /\ resp.alone /\ NoFailing(resp.before, resp.now)) =>
        /\ resp.op = "cleanup_complete"
        /\ StorageSnap(fs) = [n \in Kept(resp.before, resp.now) |-> resp.before[n]]

C5_Witness ==
    /\ resp.op = "cleanup_complete"
    /\ resp.alone
    /\ NoFailing(resp.before, resp.now)
    /\ "sub" \in listdir(fs, VIDEOS_DIR)
    /\ \E n \in DOMAIN resp.before : OverAge(resp.before, resp.now, n)
    /\ \E n \in listdir(fs, VIDEOS_DIR) :
          /\ resp.before[n].kind = "file"
          /\ resp.now - resp.before[n].mtime = RETENTION

\* C6: a run of cleanup_old_videos that follows another run, with the clock
\* and the directory as that run left them, deletes nothing: the directory
\* after it equals the directory before it.
C6_SweepIdempotent ==
    (SweepEnded /\ resp.alone /\ resp.again) => StorageSnap(fs) = resp.before

C6_Witness ==
    /\ resp.op = "cleanup_complete"
    /\ resp.alone
    /\ resp.again
    /\ hist.deleted
    /\ \E n \in DOMAIN resp.before : resp.before[n].kind = "file"

\* C7: when a sweep ends, every regular file of its listing that is over age
\* and whose own removal does not fail has been deleted, also when the stat
\* or the removal of another entry failed during the run.
C7_SweepSurvivesBadEntry ==
    (SweepEnded /\ resp.alone) =>
        \A n \in DOMAIN resp.before :
            (OverAge(resp.before, resp.now, n) /\ ~resp.before[n].locked)
                => n \notin listdir(fs, VIDEOS_DIR)

-----------------------------------------------------------------------------
(* Claims about retrieval and health *)

Served == resp.op = "serve"

\* the filename names an entry of the storage directory
InStorage(filename) ==
    LET p == Resolve(fs, PathJoin(VIDEOS_DIR, filename)) IN
    p \in DOMAIN fs /\ Parent(p) = VIDEOS_DIR

NamesStoredFile(filename) ==
    InStorage(filename) /\ isfile(fs, PathJoin(VIDEOS_DIR, filename))

\* C8: serve_video answers a filename that exists in the storage directory
\* with that file's content and media type video/mp4, answers a filename
\* that does not exist there with 404, and leaves the filesystem as it was.
C8_RetrievalContract ==
    /\ [](Served =>
            /\ NamesStoredFile(resp.filename) =>
                  /\ resp.status = 200
                  /\ resp.body = fs[VIDEOS_DIR \o <<resp.path[Len(resp.path)]>>]
                  /\ resp.path = Resolve(fs, PathJoin(VIDEOS_DIR, resp.filename))
                  /\ resp.media_type = "video/mp4"
            /\ ~InStorage(resp.filename) => resp.status = 404)
    /\ [][resp'.op = "serve" => fs' = fs]_vars

\* C9: whatever filename serve_video is given, a file it returns lies inside
\* the storage directory.
C9_ServedPathInsideStorage ==
    (Served /\ resp.status = 200) => Within(resp.path, VIDEOS_DIR)

\* C10: GET /health changes nothing on disk, and videos_stored is the number
\* of video files stored: from an empty directory, with n successful trims
\* and no sweep deletion, it is n.
C10_HealthCountsVideos ==
    /\ []((resp.op = "health" /\ ~hist.deleted) => resp.videos_stored = hist.ok)
    /\ [][resp'.op = "health" => fs' = fs]_vars

-----------------------------------------------------------------------------
(* Claims about sweeps that fail, and about sweeps running together *)

\* sweeper s is inside cleanup_old_videos
InSweep(s) == sw[s].pc \notin {"idle", "ret"}

\* C11: an error inside a sweep stays inside cleanup_old_videos.  The step
\* that fails changes nothing on disk and hands control back to the caller;
\* GET /cleanup answers 200 whatever its sweep met; every sweep that was
\* entered returns, the startup and GET /cleanup handlers finish, and the
\* scheduler's job is entered again and again.
C11_SweepErrorsContained ==
    /\ [](resp.op = "cleanup" => resp.status = 200)
    /\ [][resp'.op = "cleanup_error" =>
            /\ fs' = fs
            /\ loop' = loop
            /\ sw'[resp'.s].pc = (IF resp'.s = "sched" THEN "idle" ELSE "ret")]_vars
    /\ \A s \in Sweepers : InSweep(s) ~> ~InSweep(s)
    /\ (loop \in {"startup", "cleanup"}) ~> (loop = "free")
    /\ []<>(sw["sched"].pc = "scan")

C11_Witness ==
    /\ resp.op = "cleanup"
    /\ resp.status = 200
    /\ resp.swept.outcome = "cleanup_error"
    /\ InSweep("sched")

-----------------------------------------------------------------------------
(* Claims about requests and stored files over time *)

JobPaths(j) == {input_path(j), output_path(j), final_path(j)}

\* path p is created, removed or rewritten by the step
Changed(p) ==
    \/ (p \in DOMAIN fs) # (p \in DOMAIN fs')
    \/ p \in DOMAIN fs /\ p \in DOMAIN fs' /\ fs[p] # fs'[p]

\* a step of the trim request in flight
TrimActs == req.pc # "none" /\ req' # req

\* C12: a request's job identifier is fresh: when the request starts, none
\* of its three paths exists and no file on disk was written by a request of
\* that identifier; the paths of different identifiers are disjoint; and a
\* step of a request, its failure cleanup included, creates, rewrites or
\* removes only the request's own temp input, temp output and final file.
C12_FreshJobPaths ==
    /\ [](\A i, j \in 1..MaxJobs : i # j => JobPaths(i) \cap JobPaths(j) = {})
    /\ [][(req.pc = "none" /\ req'.pc # "none") =>
            /\ \A p \in JobPaths(req'.id) : p \notin DOMAIN fs
            /\ \A p \in DOMAIN fs : fs[p].owner # req'.id]_vars
    /\ [][TrimActs =>
            \A p \in DOMAIN fs \cup DOMAIN fs' :
                Changed(p) => p \in JobPaths(req.id)]_vars

C12_Witness ==
    /\ req.pc = "except_out"
    /\ req.id = 2
    /\ exists(fs, final_path(1))
    /\ ~exists(fs, input_path(2))

FetchOrTranscodeFailed ==
    TrimFailed /\ resp.raised \in {"fetch failed", "FFmpeg failed", "timed out"}

\* C13: a trim request is one attempt.  The fetch is entered only when the
\* request starts and the transcode only from the step that persisted the
\* input, so each runs at most once and the transcode runs after a
\* successful fetch with the input on disk; and a request whose fetch or
\* transcode failed is answered 500 with the message of that failure, with
\* nothing added to the storage directory.
C13_SingleAttempt ==
    /\ [][(req' # req /\ req'.pc = "fetch") => req.pc = "none"]_vars
    /\ [][(req' # req /\ req'.pc = "write") => req.pc = "fetch"]_vars
    /\ [][(req' # req /\ req'.pc = "ffmpeg") =>
            req.pc = "write" /\ isfile(fs', input_path(req'.id))]_vars
    /\ [](FetchOrTranscodeFailed =>
            /\ resp.status = 500
            /\ resp.detail = resp.raised
            /\ listdir(fs, VIDEOS_DIR) \subseteq resp.before)

\* the stored name n is gone or has another content after the step
Touched(n) ==
    \/ n \notin listdir(fs', VIDEOS_DIR)
    \/ fs'[VIDEOS_DIR \o <<n>>] # fs[VIDEOS_DIR \o <<n>>]

\* the step is a sweep's, and the sweep finds the stored name n over age
SweptOverAge(n) ==
    \E s \in Sweepers :
        /\ sw'[s] # sw[s]
        /\ InSweep(s)
        /\ Expired(sw[s].now - fs[VIDEOS_DIR \o <<n>>].mtime)

\* C14: a name enters the storage directory only by a step of the trim
\* request it belongs to, and only a successful request leaves its file
\* there; a stored file is removed only by a sweep that finds its age above
\* the retention threshold, and is otherwise never removed or rewritten
\* (but for the request in flight writing its own file into place).
C14_StoredFileLifecycle ==
    /\ [][\A n \in listdir(fs', VIDEOS_DIR) \ listdir(fs, VIDEOS_DIR) :
            TrimActs /\ n = final_filename(req.id)]_vars
    /\ [](TrimFailed => final_filename(resp.id) \notin listdir(fs, VIDEOS_DIR))
    /\ [][\A n \in listdir(fs, VIDEOS_DIR) :
            Touched(n) =>
                \/ SweptOverAge(n)
                \/ TrimActs /\ n = final_filename(req.id)
                             /\ n \in listdir(fs', VIDEOS_DIR)]_vars

\* n is a stored regular file that is over age and whose removal would succeed
DueForRemoval(n) ==
    /\ n \in listdir(fs, VIDEOS_DIR)
    /\ CanRemove(fs, VIDEOS_DIR \o <<n>>)
    /\ Expired(now - fs[VIDEOS_DIR \o <<n>>].mtime)

\* C15: with the recurring sweep scheduled fairly, every regular file of the
\* storage directory that is over age is eventually deleted, also when
\* another entry of the directory fails its removal on every sweep.
C15_OverAgeEventuallyDeleted ==
    \A n \in PreNames : DueForRemoval(n) ~> (n \notin listdir(fs, VIDEOS_DIR))

\* a sweep that ran together with another one has ended, and no sweep is
\* running any more
BothSweepsOver ==
    /\ SweepEnded
    /\ ~resp.alone
    /\ \A s \in Sweepers : ~InSweep(s)

\* files of the storage directory that were over age when the earliest of
\* the sweeps that ran together started, and so when each of them started
LeftOverAge ==
    { n \in listdir(fs, VIDEOS_DIR) :
        /\ fs[VIDEOS_DIR \o <<n>>].kind = "file"
        /\ resp.since - fs[VIDEOS_DIR \o <<n>>].mtime > RETENTION }

\* a file of the directory is over age by now and refuses its removal
SomeFailing ==
    \E n \in listdir(fs, VIDEOS_DIR) :
        /\ fs[VIDEOS_DIR \o <<n>>].kind = "file"
        /\ fs[VIDEOS_DIR \o <<n>>].locked
        /\ now - fs[VIDEOS_DIR \o <<n>>].mtime > RETENTION

\* C16: when sweeps have run together on the directory and all have ended,
\* none of the files that were over age when they started is left, whatever
\* the interleaving of their calls (no over-age file refusing its removal);
\* and a file is only ever deleted by a sweep that took its age, from the
\* sweep's own start, to be above 3600 s.
C16_ConcurrentSweeps ==
    /\ []((BothSweepsOver /\ ~SomeFailing) => LeftOverAge = {})
    /\ [][\A n \in listdir(fs, VIDEOS_DIR) \ listdir(fs', VIDEOS_DIR) :
            \E s \in Sweepers :
                /\ sw'[s] # sw[s]
                /\ sw[s].now - fs[VIDEOS_DIR \o <<n>>].mtime > RETENTION]_vars

\* one of two racing sweeps has lost the race for a file and ended in the
\* except clause, after the other one had completed
C16_Witness ==
    /\ BothSweepsOver
    /\ resp.op = "cleanup_error"
    /\ \A n \in DOMAIN resp.before : ~resp.before[n].locked
    /\ Cardinality({ n \in DOMAIN resp.before :
                        resp.since - resp.before[n].mtime > RETENTION }) >= 2
    /\ listdir(fs, VIDEOS_DIR) = {}

\* C17: a sweep interleaved with a trim request does not take the file the
\* request stores.  When trim_video returns success the final file is in
\* the storage directory; a stored final file is deleted only at a moment
\* when its age is above 3600 s; and while it is there, a retrieval of it
\* is not answered 404.
C17_SweepSparesFreshFile ==
    /\ [](TrimReturned => isfile(fs, final_path(resp.id)))
    /\ [][\A j \in 1..MaxJobs :
            (final_path(j) \in DOMAIN fs /\ final_path(j) \notin DOMAIN fs')
                => now - fs[final_path(j)].mtime > RETENTION]_vars
    /\ [](\A j \in 1..MaxJobs :
            (Served /\ resp.filename = Rel(<<final_filename(j)>>)
                    /\ final_path(j) \in DOMAIN fs)
                => resp.status # 404)

\* the request returns while the scheduler's sweep, entered after the move,
\* has already looked at the request's file
C17_Witness ==
    /\ TrimReturned
    /\ InSweep("sched")
    /\ final_filename(resp.id) \in DOMAIN sw["sched"].before
    /\ final_filename(resp.id) \notin sw["sched"].todo
    /\ isfile(fs, final_path(resp.id))

====
